---- MODULE Spec2Model ----
(***************************************************************************)
(* Paging simulator: a TLB in front of a page table, backed by a finite    *)
(* frame pool, driven by a page-replacement policy (FIFO, LRU or           *)
(* MarkovPredictive) over a replayed trace of virtual page numbers.         *)
(*                                                                         *)
(* simulator.py calls algorithm.choose_victim / algorithm.page_loaded;     *)
(* algorithms.py only carries the older page_fault contract, so these two  *)
(* operations are modelled from the written design (section 4.1); the      *)
(* victim selection of MarkovPredictive is the body of its page_fault.     *)
(***************************************************************************)
EXTENDS Integers, Sequences, FiniteSets, TLC

\* ---------------------------------------------------------------- bounds
NumPages  == 3
MaxTrace  == 6
MaxFrames == 2
MaxTlb    == 2

Pages    == 1..NumPages
Policies == {"FIFO", "LRU", "MarkovPredictive"}

\* Python's None (frame ids start at 0, pages at 1, the "no page" sentinel of
\* MarkovPredictive is -1)
None == -2

----------------------------------------------------------------------------
\* ------------------------------------------------------------ dict helpers
DictSet(d, k, v) == [x \in (DOMAIN d) \cup {k} |-> IF x = k THEN v ELSE d[x]]

DictDel(d, k) == [x \in (DOMAIN d) \ {k} |-> d[x]]

RECURSIVE SeqRemoveFirst(_, _)
SeqRemoveFirst(s, x) ==
    IF s = << >> THEN << >>
    ELSE IF Head(s) = x THEN Tail(s)
    ELSE <<Head(s)>> \o SeqRemoveFirst(Tail(s), x)

SeqElems(s) == {s[i] : i \in DOMAIN s}

----------------------------------------------------------------------------
\* ------------------------------------------------------------------- TLB
\* the OrderedDict is a sequence of <<page, frame>>, least recently used first
CacheKeys(cache) == {cache[i][1] : i \in DOMAIN cache}

CacheGet(cache, vp) == (CHOOSE i \in DOMAIN cache : cache[i][1] = vp)

move_to_end(cache, vp) ==
    LET i == CacheGet(cache, vp)
    IN  SelectSeq(cache, LAMBDA e : e[1] # vp) \o <<cache[i]>>

TLB_lookupNoTouch(cache, vp) ==
    IF vp \in CacheKeys(cache)
    THEN <<cache[CacheGet(cache, vp)][2], cache>>
    ELSE <<None, cache>>

\* lookup: <<frame or None, cache afterwards>>
TLB_lookup(cache, vp) ==
    IF vp \in CacheKeys(cache)
    THEN LET c2 == move_to_end(cache, vp)
         IN  <<c2[Len(c2)][2], c2>>
    ELSE <<None, cache>>

TLB_addNeverEvicts(cache, size, vp, frame_num) ==
    LET c1 == IF vp \in CacheKeys(cache)
              THEN [i \in DOMAIN cache |->
                        IF cache[i][1] = vp THEN <<vp, frame_num>> ELSE cache[i]]
              ELSE Append(cache, <<vp, frame_num>>)
    IN  move_to_end(c1, vp)

TLB_add(cache, size, vp, frame_num) ==
    LET c1 == IF vp \in CacheKeys(cache)
              THEN [i \in DOMAIN cache |->
                        IF cache[i][1] = vp THEN <<vp, frame_num>> ELSE cache[i]]
              ELSE Append(cache, <<vp, frame_num>>)
        c2 == move_to_end(c1, vp)
    IN  IF Len(c2) > size THEN Tail(c2) ELSE c2

----------------------------------------------------------------------------
\* ------------------------------------------------------------- PageTable
PageTable_lookup(mapping, vp) ==
    IF vp \in DOMAIN mapping THEN mapping[vp] ELSE None

PageTable_update(mapping, vp, frame_num) == DictSet(mapping, vp, frame_num)

PageTable_evict(mapping, vp) ==
    IF vp \in DOMAIN mapping THEN DictDel(mapping, vp) ELSE mapping

----------------------------------------------------------------------------
\* ---------------------------------------------------------------- Memory
\* frames is 1-indexed here: slot of frame id f is frames[f + 1]
Memory_init(nf) ==
    [frames        |-> [i \in 1..nf |-> None],
     free_frames   |-> [i \in 1..nf |-> i - 1],
     page_to_frame |-> << >>]

is_fullOffByOne(m) == Len(m.free_frames) <= 1

is_full(m) == m.free_frames = << >>

\* get_free_frame: <<frame or None, memory afterwards>>
get_free_frame(m) ==
    IF m.free_frames # << >>
    THEN <<Head(m.free_frames), [m EXCEPT !.free_frames = Tail(@)]>>
    ELSE <<None, m>>

load_page(m, vp, frame_num) ==
    [m EXCEPT !.frames[frame_num + 1] = vp,
              !.page_to_frame = DictSet(@, vp, frame_num)]

\* evict_page: <<freed frame, memory afterwards>>; the caller handles the
\* KeyError of page_to_frame.pop when vp is not a key
evict_page(m, vp) ==
    LET frame_num == m.page_to_frame[vp]
    IN  <<frame_num,
          [m EXCEPT !.page_to_frame = DictDel(@, vp),
                    !.frames[frame_num + 1] = None,
                    !.free_frames = Append(@, frame_num)]>>

pages_in_memory(frames) == SelectSeq(frames, LAMBDA p : p # None)

Resident(m) == SeqElems(pages_in_memory(m.frames))

----------------------------------------------------------------------------
\* ------------------------------------------------------------ algorithms
\* MarkovPredictive.__init__: index of a page in sorted(all_pages)
page_to_index(all_pages) ==
    [p \in all_pages |-> Cardinality({q \in all_pages : q < p})]

\* MarkovPredictive.train: a probability count / row_sum is kept as the pair
\* <<count, row_sum>>; a row without outgoing transitions stays all zero
train(all_pages, trace) ==
    LET idx == page_to_index(all_pages)
        n   == Cardinality(all_pages)
        cnt(i, j) == Cardinality({k \in 1..(Len(trace) - 1) :
                        /\ trace[k] \in all_pages
                        /\ trace[k + 1] \in all_pages
                        /\ idx[trace[k]] = i
                        /\ idx[trace[k + 1]] = j})
        row_sum(i) == Cardinality({k \in 1..(Len(trace) - 1) :
                        /\ trace[k] \in all_pages
                        /\ trace[k + 1] \in all_pages
                        /\ idx[trace[k]] = i})
    IN  [i \in 0..(n - 1) |-> [j \in 0..(n - 1) |->
            IF row_sum(i) > 0 THEN <<cnt(i, j), row_sum(i)>> ELSE <<0, 1>>]]

ProbLessOrEqual(a, b) == a[1] * b[2] <= b[1] * a[2]

\* prob < min_prob on two quotients count / row_sum
ProbLess(a, b) == a[1] * b[2] < b[1] * a[2]

Algorithm_init(policy, all_pages, training) ==
    [queue              |-> << >>,
     page_order         |-> << >>,
     last_accessed_page |-> -1,
     page_to_index      |-> IF policy = "MarkovPredictive"
                            THEN page_to_index(all_pages) ELSE << >>,
     transition_matrix  |-> IF policy = "MarkovPredictive"
                            THEN train(all_pages, training) ELSE << >>]

\* Algorithm.page_accessed (no-op), LRU.page_accessed, MarkovPredictive.page_accessed
page_accessed(policy, alg, vp) ==
    CASE policy = "FIFO" -> alg
      [] policy = "LRU" ->
            [alg EXCEPT !.page_order = Append(SeqRemoveFirst(@, vp), vp)]
      [] OTHER -> [alg EXCEPT !.last_accessed_page = vp]

\* page_to_index.get(page): the index or None
index_get(alg, page) ==
    IF page \in DOMAIN alg.page_to_index THEN alg.page_to_index[page] ELSE None

\* what  prob < min_prob  cannot be evaluated on (see MarkovProb)
Ambiguous == <<-1, 1>>

\* prob = transition_matrix[last_page_idx][mem_page_idx].  With two integer
\* indices this is the matrix entry.  numpy reads a None index as a new axis,
\* so with an absent index prob is an array: on a 1 x 1 matrix it has the one
\* element T[0][0] and compares as that number; on a larger matrix the
\* comparison yields several truth values and "if" raises ValueError (or the
\* integer index that follows a None index is out of range: IndexError).
MarkovProb(alg, last, cand) ==
    LET i == index_get(alg, last)
        j == index_get(alg, cand)
    IN  IF i # None /\ j # None THEN alg.transition_matrix[i][j]
        ELSE IF Cardinality(DOMAIN alg.page_to_index) = 1
             THEN alg.transition_matrix[0][0]
             ELSE Ambiguous

\* the loop over pages_in_memory: strict < against the running minimum, the
\* first candidate always beats the initial infinity
RECURSIVE MarkovScan(_, _, _, _, _)
MarkovScan(alg, last, mem, i, best) ==
    IF i > Len(mem) THEN best
    ELSE IF ProbLess(MarkovProb(alg, last, mem[i]), MarkovProb(alg, last, best))
         THEN MarkovScan(alg, last, mem, i + 1, mem[i])
         ELSE MarkovScan(alg, last, mem, i + 1, best)

\* victim selection of MarkovPredictive; None stands for a raised exception
Markov_select(alg, frames) ==
    LET mem  == pages_in_memory(frames)
        last == alg.last_accessed_page
    IN  IF Len(mem) < Len(frames) \/ mem = << >> THEN -1
        ELSE IF last = -1 THEN mem[1]
        ELSE IF \E k \in DOMAIN mem : MarkovProb(alg, last, mem[k]) = Ambiguous
             THEN None
             ELSE MarkovScan(alg, last, mem, 2, mem[1])

\* choose_victim: <<victim, policy state afterwards>>; an empty queue or list
\* yields None (the pop raises)
choose_victim(policy, alg, frames) ==
    CASE policy = "FIFO" ->
            IF alg.queue = << >> THEN <<None, alg>>
            ELSE <<Head(alg.queue), [alg EXCEPT !.queue = Tail(@)]>>
      [] policy = "LRU" ->
            IF alg.page_order = << >> THEN <<None, alg>>
            ELSE <<Head(alg.page_order), [alg EXCEPT !.page_order = Tail(@)]>>
      [] OTHER -> <<Markov_select(alg, frames), alg>>

page_loaded(policy, alg, vp) ==
    CASE policy = "FIFO" -> [alg EXCEPT !.queue = Append(@, vp)]
      [] policy = "LRU" -> [alg EXCEPT !.page_order = Append(@, vp)]
      [] OTHER -> [alg EXCEPT !.last_accessed_page = vp]

----------------------------------------------------------------------------
\* ------------------------------------------------------------- Simulator
Stats_init ==
    [total_accesses |-> 0, page_hits |-> 0, page_faults |-> 0,
     tlb_hits |-> 0, tlb_misses |-> 0]

Simulator_init(nf, tsz, policy, all_pages, training) ==
    [num_frames |-> nf,
     tlb_size   |-> tsz,
     policy     |-> policy,
     memory     |-> Memory_init(nf),
     page_table |-> << >>,
     tlb        |-> << >>,
     stats      |-> Stats_init,
     algorithm  |-> Algorithm_init(policy, all_pages, training),
     status     |-> "running",
     log        |-> << >>]

countDropsTlbMiss(stats, key) ==
    IF key = "tlb_misses" THEN stats ELSE [stats EXCEPT ![key] = @ + 1]

\* self.stats[key] += 1
count(stats, key) == [stats EXCEPT ![key] = @ + 1]

\* what the run observably did for one access (tlb/page outcome, victim)
LogEntry(vp, tlb, page, victim) ==
    [page |-> vp, tlb |-> tlb, result |-> page, victim |-> victim]

\* the four ways one access is resolved, decided as the loop body decides
PathOf(s, vp) ==
    IF TLB_lookup(s.tlb, vp)[1] # None THEN "tlb_hit"
    ELSE IF PageTable_lookup(s.page_table, vp) # None THEN "page_hit"
    ELSE IF is_full(s.memory) THEN "fault_evict"
    ELSE "fault_free"

\* page fault branch of the loop body, after the counters are bumped
page_fault_branch(s, vp) ==
    LET full == is_full(s.memory)
        cv   == IF full THEN choose_victim(s.policy, s.algorithm, s.memory.frames)
                ELSE <<None, s.algorithm>>
        victim_page == cv[1]
    IN  IF full /\ victim_page \notin DOMAIN s.memory.page_to_frame
        THEN \* page_to_frame.pop raises KeyError: the run is aborted
             [s EXCEPT !.algorithm = cv[2],
                       !.status = "error",
                       !.log = Append(@, LogEntry(vp, "miss", "fault", victim_page))]
        ELSE
        LET ev    == IF full THEN evict_page(s.memory, victim_page)
                     ELSE get_free_frame(s.memory)
            frame == ev[1]
            pt1   == IF full THEN PageTable_evict(s.page_table, victim_page)
                     ELSE s.page_table
        IN  [s EXCEPT !.memory     = load_page(ev[2], vp, frame),
                      !.page_table = PageTable_update(pt1, vp, frame),
                      !.tlb        = TLB_add(s.tlb, s.tlb_size, vp, frame),
                      !.algorithm  = page_loaded(s.policy, cv[2], vp),
                      !.log = Append(@, LogEntry(vp, "miss", "fault", victim_page))]

\* one iteration of the loop of Simulator.run
run_access(s, vp) ==
    LET s1 == [s EXCEPT !.stats = count(@, "total_accesses")]
        lk == TLB_lookup(s1.tlb, vp)
    IN  IF lk[1] # None
        THEN [s1 EXCEPT !.tlb = lk[2],
                        !.stats = count(count(@, "tlb_hits"), "page_hits"),
                        !.algorithm = page_accessed(s.policy, @, vp),
                        !.log = Append(@, LogEntry(vp, "hit", "hit", None))]
        ELSE
        LET s2    == [s1 EXCEPT !.stats = count(@, "tlb_misses")]
            frame == PageTable_lookup(s2.page_table, vp)
        IN  IF frame # None
            THEN [s2 EXCEPT !.stats = count(@, "page_hits"),
                            !.algorithm = page_accessed(s.policy, @, vp),
                            !.tlb = TLB_add(@, s.tlb_size, vp, frame),
                            !.log = Append(@, LogEntry(vp, "miss", "hit", None))]
            ELSE page_fault_branch(
                     [s2 EXCEPT !.stats = count(@, "page_faults")], vp)

----------------------------------------------------------------------------
\* ------------------------------------------------------------ state machine
VARIABLES
    trace,   \* the page trace handed to run
    pos,     \* number of trace elements the loop has taken
    sim,     \* the Simulator under the chosen tlb_size
    base     \* a second Simulator, same policy and trace, tlb_size = 0

vars == <<trace, pos, sim, base>>

\* Page numbers are opaque to the program: they are only compared for equality
\* and sorted(all_pages) only fixes an index bijection, so every trace behaves
\* as the one obtained by numbering its pages 1, 2, ... in order of first
\* reference.  Only those representatives are enumerated.
FirstReferenceOrder(t) ==
    \A i \in DOMAIN t : \A p \in 1..(t[i] - 1) : \E j \in 1..(i - 1) : t[j] = p

Traces ==
    {t \in UNION {[1..n -> Pages] : n \in 1..MaxTrace} : FirstReferenceOrder(t)}

\* main: all_pages is the set of pages of the trace, the model is trained on
\* the trace itself, one fresh Simulator per run
Init ==
    /\ trace \in Traces
    /\ pos = 0
    /\ \E nf \in 1..MaxFrames, tsz \in 0..MaxTlb, policy \in Policies :
          /\ sim  = Simulator_init(nf, tsz, policy, SeqElems(trace), trace)
          /\ base = Simulator_init(nf, 0, policy, SeqElems(trace), trace)

Running == sim.status = "running" /\ pos < Len(trace)

Access ==
    /\ sim'  = run_access(sim, trace[pos + 1])
    /\ base' = IF base.status = "running"
               THEN run_access(base, trace[pos + 1]) ELSE base
    /\ pos'  = pos + 1
    /\ UNCHANGED trace

TLBHit ==
    /\ Running
    /\ PathOf(sim, trace[pos + 1]) = "tlb_hit"
    /\ Access

TLBMissPageHit ==
    /\ Running
    /\ PathOf(sim, trace[pos + 1]) = "page_hit"
    /\ Access

PageFaultFree ==
    /\ Running
    /\ PathOf(sim, trace[pos + 1]) = "fault_free"
    /\ Access

PageFaultEvict ==
    /\ Running
    /\ PathOf(sim, trace[pos + 1]) = "fault_evict"
    /\ Access
    /\ sim'.status = "running"

PageFaultEvictRaises ==
    /\ Running
    /\ PathOf(sim, trace[pos + 1]) = "fault_evict"
    /\ Access
    /\ sim'.status = "error"

\* the loop is over: print_results
Finish ==
    /\ sim.status = "running"
    /\ pos = Len(trace)
    /\ sim'  = [sim EXCEPT !.status = "done"]
    /\ base' = [base EXCEPT !.status = IF @ = "running" THEN "done" ELSE @]
    /\ UNCHANGED <<trace, pos>>

Next ==
    \/ TLBHit
    \/ TLBMissPageHit
    \/ PageFaultFree
    \/ PageFaultEvict
    \/ PageFaultEvictRaises
    \/ Finish

Spec == Init /\ [][Next]_vars

\* MarkovPredictive(num_frames, all_pages) used directly: the page set given at
\* construction is any non-empty set of pages, not necessarily the trace's
InitMarkov ==
    /\ trace \in Traces
    /\ pos = 0
    /\ \E nf \in 1..MaxFrames, tsz \in 0..MaxTlb, all_pages \in (SUBSET Pages) \ {{}} :
          /\ sim  = Simulator_init(nf, tsz, "MarkovPredictive", all_pages, trace)
          /\ base = Simulator_init(nf, 0, "MarkovPredictive", all_pages, trace)

SpecMarkov == InitMarkov /\ [][Next]_vars

\* run is a plain sequential loop: nothing but an exception stops it
FairSpec == Spec /\ WF_vars(Next)

----------------------------------------------------------------------------
\* ------------------------------------------------------ property vocabulary
Occupied(m) == {i \in DOMAIN m.frames : m.frames[i] # None}

\* the step just taken resolved (or tried to resolve) trace[pos + 1]
AccessStep == pos' = pos + 1

Last(log) == log[Len(log)]

\* the step just taken asked the policy for a victim
VictimStep == AccessStep /\ Last(sim'.log).victim # None

VictimSeq(log) ==
    LET withVictim == SelectSeq(log, LAMBDA e : e.victim # None)
    IN  [i \in DOMAIN withVictim |-> withVictim[i].victim]

Distinct(t) == Cardinality(SeqElems(t))

\* index of the access that (last) loaded page p, 0 when never loaded
LoadTime(log, p) ==
    LET S == {i \in DOMAIN log : log[i].page = p /\ log[i].result = "fault"}
    IN  IF S = {} THEN 0 ELSE CHOOSE i \in S : \A j \in S : j <= i

\* index of the latest reference to page p among the first k accesses
LastRef(t, k, p) ==
    LET S == {i \in 1..k : t[i] = p}
    IN  IF S = {} THEN 0 ELSE CHOOSE i \in S : \A j \in S : j <= i

----------------------------------------------------------------------------
\* C1: the page table holds exactly the pages that occupy a frame slot, so
\* its size is the number of occupied slots, which is at most num_frames.
C1_PageTableIsResidentSet ==
    /\ DOMAIN sim.page_table = Resident(sim.memory)
    /\ Cardinality(DOMAIN sim.page_table) = Cardinality(Occupied(sim.memory))
    /\ Cardinality(Occupied(sim.memory)) <= sim.num_frames

\* C2: occupied slots = num_frames - len(free_frames), and page_to_frame[p] = f
\* exactly when frames[f] = p.
C2_FramePoolConsistent ==
    /\ Cardinality(Occupied(sim.memory))
          = sim.num_frames - Len(sim.memory.free_frames)
    /\ \A p \in Pages, f \in 0..(sim.num_frames - 1) :
          (p \in DOMAIN sim.memory.page_to_frame /\ sim.memory.page_to_frame[p] = f)
             <=> sim.memory.frames[f + 1] = p

\* C3: every (page, frame) entry of the TLB is the current page-table mapping
\* of that page.
C3_TLBNeverStale ==
    \A i \in DOMAIN sim.tlb :
        /\ sim.tlb[i][1] \in DOMAIN sim.page_table
        /\ sim.page_table[sim.tlb[i][1]] = sim.tlb[i][2]

\* C4: tlb_hits + tlb_misses = total_accesses = page_hits + page_faults in
\* every state; every access adds one to total_accesses, to exactly one of
\* tlb_hits/tlb_misses and to exactly one of page_hits/page_faults, and no
\* counter ever decreases.
C4_Balanced ==
    /\ sim.stats.tlb_hits + sim.stats.tlb_misses = sim.stats.total_accesses
    /\ sim.stats.page_hits + sim.stats.page_faults = sim.stats.total_accesses
    /\ sim.stats.total_accesses = pos

C4_OncePerAccess ==
    LET a == sim.stats
        b == sim'.stats
    IN  /\ \A k \in DOMAIN a : b[k] >= a[k]
        /\ AccessStep =>
              /\ b.total_accesses = a.total_accesses + 1
              /\ <<b.tlb_hits - a.tlb_hits, b.tlb_misses - a.tlb_misses>>
                     \in {<<1, 0>>, <<0, 1>>}
              /\ <<b.page_hits - a.page_hits, b.page_faults - a.page_faults>>
                     \in {<<1, 0>>, <<0, 1>>}
        /\ ~AccessStep => b = a

C4_StatsBalanced == [](C4_Balanced) /\ [][C4_OncePerAccess]_vars

\* C4 witness: a finished run that took TLB hits, page-table hits and faults
C4_Witness ==
    /\ sim.status = "done"
    /\ sim.stats.tlb_hits > 0
    /\ sim.stats.page_hits > sim.stats.tlb_hits
    /\ sim.stats.page_faults > 0

\* C5: an access is counted as a page fault exactly when the referenced page
\* occupies no frame at the moment of the access (so a page hit, by either
\* path, is only recorded for a resident page).
C5_FaultIffNotResident ==
    [][AccessStep =>
         ((sim'.stats.page_faults = sim.stats.page_faults + 1)
             <=> trace[pos + 1] \notin Resident(sim.memory))]_vars

\* C6: with tlb_size = 0 and with the chosen tlb_size the run produces the
\* same per-access fault/hit outcomes and the same victims.
C6_TLBTransparent ==
    \A i \in (DOMAIN sim.log) \cap (DOMAIN base.log) :
        /\ sim.log[i].result = base.log[i].result
        /\ sim.log[i].victim = base.log[i].victim

\* C7: under FIFO every eviction removes the resident page that was loaded
\* earliest; with num_frames = 2 and trace [1,2,3,1,2] page 1 and later page 2
\* are evicted.
C7_FIFOEviction ==
    (sim.policy = "FIFO" /\ VictimStep) =>
        LET v == Last(sim'.log).victim
        IN  /\ v \in Resident(sim.memory)
            /\ \A q \in Resident(sim.memory) :
                  LoadTime(sim.log, v) <= LoadTime(sim.log, q)

C7_FIFOExample ==
    (/\ sim.policy = "FIFO"
     /\ sim.num_frames = 2
     /\ trace = <<1, 2, 3, 1, 2>>
     /\ sim.status = "done") =>
        LET vs == VictimSeq(sim.log)
        IN  \E i, j \in DOMAIN vs : i < j /\ vs[i] = 1 /\ vs[j] = 2

C7_FIFOOrder == [](C7_FIFOExample) /\ [][C7_FIFOEviction]_vars

\* C8: under LRU every eviction removes the resident page whose latest
\* reference is the oldest; with num_frames = 2 and trace [1,2,1,3] the fault
\* on 3 evicts page 2.
C8_LRUEviction ==
    (sim.policy = "LRU" /\ VictimStep) =>
        LET v == Last(sim'.log).victim
        IN  /\ v \in Resident(sim.memory)
            /\ \A q \in Resident(sim.memory) :
                  LastRef(trace, pos, v) <= LastRef(trace, pos, q)

C8_LRUExample ==
    (/\ sim.policy = "LRU"
     /\ sim.num_frames = 2
     /\ Len(trace) >= 4
     /\ SubSeq(trace, 1, 4) = <<1, 2, 1, 3>>
     /\ Len(sim.log) >= 4) => sim.log[4].victim = 2

C8_LRUOrder == [](C8_LRUExample) /\ [][C8_LRUEviction]_vars

\* C9: when num_frames is at least the number of distinct pages of the trace,
\* an access faults exactly when it is the first reference to its page, no
\* victim is ever chosen, the run does not fail, and at the end page_faults is
\* the number of distinct pages.
C9_NoFaultSteadyState ==
    sim.num_frames >= Distinct(trace) =>
        /\ sim.status # "error"
        /\ \A i \in DOMAIN sim.log :
              /\ sim.log[i].victim = None
              /\ (sim.log[i].result = "fault")
                    <=> (\A j \in 1..(i - 1) : trace[j] # trace[i])
        /\ sim.status = "done" => sim.stats.page_faults = Distinct(trace)

\* C9 witness: a finished run whose frames exactly fit its two distinct pages
\* and that saw hits after the loads
C9_Witness ==
    /\ sim.status = "done"
    /\ sim.num_frames = 2
    /\ Distinct(trace) = 2
    /\ sim.stats.page_faults = 2
    /\ sim.stats.page_hits >= 2

\* C10: choose_victim is only invoked when every frame slot is occupied, and
\* the page it returns occupies a slot of the frames array, so evict_page finds
\* and frees the victim's slot.
C10_VictimIsResident ==
    [][VictimStep =>
         /\ Cardinality(Occupied(sim.memory)) = sim.num_frames
         /\ Last(sim'.log).victim \in Resident(sim.memory)
         /\ sim'.status # "error"]_vars

----------------------------------------------------------------------------
\* number of times page b directly follows page a in the training trace
Transitions(t, a, b) ==
    Cardinality({k \in 1..(Len(t) - 1) : t[k] = a /\ t[k + 1] = b})

\* C11: the MarkovPredictive victim is a resident page whose trained
\* probability P[last][victim] is minimal among the resident pages (within the
\* row of last the probabilities order as the transition counts), every
\* resident page earlier in the frame array has a strictly larger one, and
\* with last = -1 or all candidates at zero it is the first resident page.
C11_MinimumProbability ==
    (sim.policy = "MarkovPredictive" /\ VictimStep) =>
        LET last == sim.algorithm.last_accessed_page
            mem  == pages_in_memory(sim.memory.frames)
            v    == Last(sim'.log).victim
        IN  \E i \in DOMAIN mem :
               /\ mem[i] = v
               /\ \A j \in DOMAIN mem :
                     Transitions(trace, last, mem[j]) >= Transitions(trace, last, v)
               /\ \A j \in 1..(i - 1) :
                     Transitions(trace, last, mem[j]) > Transitions(trace, last, v)
               /\ (last = -1 \/ \A j \in DOMAIN mem :
                                   Transitions(trace, last, mem[j]) = 0) => i = 1

C11_MarkovVictim == [][C11_MinimumProbability]_vars

\* C11 witness: a MarkovPredictive eviction that passed over the page in
\* frame 0 and took the less likely page of frame 1
C11_Witness ==
    /\ sim.policy = "MarkovPredictive"
    /\ sim.num_frames = 2
    /\ sim.log # << >>
    /\ Last(sim.log).victim \in Pages
    /\ sim.memory.frames[2] = Last(sim.log).page

----------------------------------------------------------------------------
Indexed(s) == DOMAIN s.algorithm.page_to_index

\* transition count with an absent row or column read as zero
TransitionsOrZero(s, t, a, b) ==
    IF a \in Indexed(s) /\ b \in Indexed(s) THEN Transitions(t, a, b) ELSE 0

\* C12: when MarkovPredictive picks a victim while the last page or a resident
\* page has no index, the run does not fail: the missing row/column counts as
\* probability zero and the first resident page of minimal probability is
\* returned.
C12_UnknownPageCase ==
    /\ sim.policy = "MarkovPredictive"
    /\ Running
    /\ PathOf(sim, trace[pos + 1]) = "fault_evict"
    /\ \E p \in Resident(sim.memory) \cup {sim.algorithm.last_accessed_page} :
          p \notin Indexed(sim)

C12_UnknownPageIsZero ==
    [][(C12_UnknownPageCase /\ AccessStep) =>
          /\ sim'.status # "error"
          /\ LET last == sim.algorithm.last_accessed_page
                 mem  == pages_in_memory(sim.memory.frames)
                 v    == Last(sim'.log).victim
             IN  \E i \in DOMAIN mem :
                    /\ mem[i] = v
                    /\ \A j \in DOMAIN mem :
                          TransitionsOrZero(sim, trace, last, mem[j])
                             >= TransitionsOrZero(sim, trace, last, v)
                    /\ \A j \in 1..(i - 1) :
                          TransitionsOrZero(sim, trace, last, mem[j])
                             > TransitionsOrZero(sim, trace, last, v)]_vars

----------------------------------------------------------------------------
\* C13: the TLB never holds more than tlb_size entries, and with tlb_size = 0
\* it is empty after every access, so every access is a TLB miss (tlb_hits
\* stays 0, tlb_misses = total_accesses).
C13_Holds(s) ==
    /\ Len(s.tlb) <= s.tlb_size
    /\ s.tlb_size = 0 =>
          /\ s.tlb = << >>
          /\ s.stats.tlb_hits = 0
          /\ s.stats.tlb_misses = s.stats.total_accesses

C13_TLBCapacity == C13_Holds(sim) /\ C13_Holds(base)

\* C13 witness: a full TLB of size 2 after a third page was added, next to a
\* tlb_size = 0 run that took page-table hits, all of them TLB misses
C13_Witness ==
    /\ sim.tlb_size = 2
    /\ Len(sim.tlb) = 2
    /\ Cardinality({trace[i] : i \in 1..pos}) = 3
    /\ sim.status = "done"
    /\ base.tlb_size = 0
    /\ base.stats.page_hits > 0
    /\ base.stats.tlb_misses = pos

\* C14: every run finishes: it never enters an error state and eventually is
\* done with every trace element resolved once, in order, total_accesses being
\* the trace length.
C14_Completed ==
    /\ sim.status = "done"
    /\ sim.stats.total_accesses = Len(trace)
    /\ Len(sim.log) = Len(trace)
    /\ \A i \in DOMAIN trace : sim.log[i].page = trace[i]

C14_RunTerminates == [](sim.status # "error") /\ <>C14_Completed

----------------------------------------------------------------------------
\* C16: a fault is resolved without the policy only when a slot is empty; the
\* faulting page goes into an empty slot taken from the head of the free-list
\* or into the slot the victim held; no resident page is overwritten and no
\* frame on the free-list holds a page.
C16_FreeListIsEmptySlots ==
    \A i \in DOMAIN sim.memory.free_frames :
        sim.memory.frames[sim.memory.free_frames[i] + 1] = None

C16_FaultStep ==
    /\ AccessStep
    /\ sim'.stats.page_faults = sim.stats.page_faults + 1
    /\ sim'.status # "error"

C16_LoadsIntoFreeOrFreed ==
    C16_FaultStep =>
        LET vp == trace[pos + 1]
            v  == Last(sim'.log).victim
            f  == sim'.memory.page_to_frame[vp]
        IN  /\ v = None =>
                  /\ \E i \in DOMAIN sim.memory.frames : sim.memory.frames[i] = None
                  /\ sim.memory.free_frames # << >>
                  /\ f = Head(sim.memory.free_frames)
                  /\ sim.memory.frames[f + 1] = None
            /\ v # None => sim.memory.frames[f + 1] = v
            /\ \A q \in Resident(sim.memory) \ {v} : q \in Resident(sim'.memory)

C16_NoOverwrite == [](C16_FreeListIsEmptySlots) /\ [][C16_LoadsIntoFreeOrFreed]_vars

\* C17: after every processed access the FIFO queue / the LRU page_order holds
\* exactly the resident pages, each once.
C17_BookkeepingIsResidentSet ==
    sim.status # "error" =>
        /\ sim.policy = "FIFO" =>
              /\ SeqElems(sim.algorithm.queue) = Resident(sim.memory)
              /\ Len(sim.algorithm.queue) = Cardinality(Resident(sim.memory))
        /\ sim.policy = "LRU" =>
              /\ SeqElems(sim.algorithm.page_order) = Resident(sim.memory)
              /\ Len(sim.algorithm.page_order) = Cardinality(Resident(sim.memory))

\* C18: the TLB is a pure LRU cache.  Every access touches the entry of its
\* page (lookup hit or add), so: the entries are ordered by the latest
\* reference to their page, the cache holds exactly the tlb_size most recently
\* referenced pages (each overflow removed the least recently touched entry,
\* never the one just added), and a lookup of an absent page returns None and
\* leaves the cache as it is.
Referenced == {trace[i] : i \in 1..pos}

C18_PureLRU ==
    sim.status # "error" =>
        /\ \A i, j \in DOMAIN sim.tlb :
              i < j => LastRef(trace, pos, sim.tlb[i][1]) < LastRef(trace, pos, sim.tlb[j][1])
        /\ \A p \in Referenced :
              p \in CacheKeys(sim.tlb)
                 <=> Cardinality({q \in Referenced :
                        LastRef(trace, pos, q) > LastRef(trace, pos, p)}) < sim.tlb_size
        /\ CacheKeys(sim.tlb) \subseteq Referenced
        /\ \A p \in Pages \ CacheKeys(sim.tlb) :
              TLB_lookup(sim.tlb, p) = <<None, sim.tlb>>

\* C18 witness: after [1,2,1,3] a TLB of size 2 holds 1 and 3: the hit on 1
\* made 2 the least recently used entry
C18_Witness ==
    /\ sim.tlb_size = 2
    /\ pos = 4
    /\ SubSeq(trace, 1, 4) = <<1, 2, 1, 3>>
    /\ sim.stats.tlb_hits = 1
    /\ [i \in DOMAIN sim.tlb |-> sim.tlb[i][1]] = <<1, 3>>

\* C20: after every processed access the referenced page is resident: the page
\* table maps it to a frame f, slot f holds it, and with tlb_size >= 1 its TLB
\* entry maps to f as well.
C20_ReferencedPageResident ==
    (pos > 0 /\ sim.status # "error") =>
        LET vp == trace[pos]
        IN  /\ vp \in DOMAIN sim.page_table
            /\ sim.memory.frames[sim.page_table[vp] + 1] = vp
            /\ sim.tlb_size >= 1 =>
                  \E i \in DOMAIN sim.tlb : sim.tlb[i] = <<vp, sim.page_table[vp]>>

====
